---------------------------- MODULE Spec2Model ----------------------------
(***************************************************************************)
(* Quorum-intersection analysis of a Federated Byzantine Agreement System. *)
(*                                                                         *)
(* The model follows the three stages of the code:                         *)
(*   fbas.rs          front ends insert (validator, quorum set) pairs into *)
(*                    a BTreeMap, from_quorum_set_map turns the map into a *)
(*                    graph of Validator and interned QSet vertices;       *)
(*   fbas_analyze.rs  construct_formula emits the CNF clauses, solve()     *)
(*                    runs the SAT solver and lifts the model to two       *)
(*                    validator lists, get_potential_split() renders them.  *)
(*                                                                         *)
(* Node indices are the 0-based petgraph indices; vertex i of the graph is *)
(* nodes[i + 1].  A literal is a non-zero integer, DIMACS style: variable  *)
(* x positive is x + 1, negated is -(x + 1).                               *)
(***************************************************************************)
EXTENDS Integers, Sequences, FiniteSets, TLC

VARIABLES
    pc,         \* position of the caller: start, built, failed, ready, solved, done
    input,      \* what the front end is given: [source, entries]
    qsm,        \* the QuorumSetMap the front end built (sorted by key)
    build,      \* result of from_quorum_set_map: [ok, fbas, known_validators, known_qsets, log]
    solver,     \* the solver's variables and clauses: [num_vars, clauses]
    status,     \* FbasAnalyzer.status
    split,      \* what get_potential_split() returned
    stop,       \* the flag of the callbacks object, raised through its handle
    returned,   \* the statuses the solve() calls returned, oldest first
    allocated,  \* LimitedAllocator.allocated
    req,        \* per thread: the alloc call in progress, if any
    heap,       \* per thread: the sizes of the blocks it holds
    outcome,    \* per thread: how its last completed call ended
    lost        \* sizes counted for blocks the system allocator did not deliver

\* the variables of the analyzer and its caller
analyzerVars == <<pc, input, qsm, build, solver, status, split, stop, returned>>

\* the variables of the global allocator and the threads that use it
allocVars == <<allocated, req, heap, outcome, lost>>

vars == <<pc, input, qsm, build, solver, status, split, stop, returned,
          allocated, req, heap, outcome, lost>>

-----------------------------------------------------------------------------
(* Bounds of the model *)

\* largest threshold a declared quorum set carries
MaxThreshold == 2
\* longest validator list of a declared quorum set
MaxMembers == 2
\* deepest nesting of a declared quorum set (top level = 1)
MaxNest == 5

(* Program constants *)

QUORUM_SET_MAX_DEPTH == 4

-----------------------------------------------------------------------------
(* Validator identifiers: strings, ordered as String's Ord orders them. *)

NameOrder == <<"v1", "v2", "v3", "v4">>

Rank(s) == CHOOSE i \in 1..Len(NameOrder) : NameOrder[i] = s

StrLess(a, b) == Rank(a) < Rank(b)

\* identifiers that appear as top-level keys
Keys == {"v1", "v2", "v3"}

\* identifiers that quorum sets may name; "v4" never has an entry of its own
Members == {"v1", "v2", "v3", "v4"}

SeqsUpTo(S, n) == UNION {[1..k -> S] : k \in 0..n}

Range(s) == {s[i] : i \in DOMAIN s}

\* the elements of a set of naturals in ascending order (BTreeSet iteration)
RECURSIVE SortedSeq(_)
SortedSeq(S) ==
    IF S = {} THEN <<>>
    ELSE LET m == CHOOSE x \in S : \A y \in S : x <= y
         IN <<m>> \o SortedSeq(S \ {m})

-----------------------------------------------------------------------------
(* fbas.rs: the data model *)

\* InternalScpQuorumSet
IQS(t, vs, inner) == [threshold |-> t, validators |-> vs, inner_sets |-> inner]

\* Vertex::Validator(String)
ValidatorVertex(v) == [kind |-> "Validator", id |-> v]

\* Vertex::QSet(Qset)
QSetVertex(q) == [kind |-> "QSet", qset |-> q]

\* Qset { threshold, validators, inner_qsets }
Qset(t, vs, qs) == [threshold |-> t, validators |-> vs, inner_qsets |-> qs]

\* Faulty variant of get_threshold: a Validator vertex asks for no successor
get_threshold_zero(vertex) ==
    IF vertex.kind = "Validator" THEN 0 ELSE vertex.qset.threshold

\* Vertex::get_threshold
get_threshold(vertex) ==
    IF vertex.kind = "Validator" THEN 1 ELSE vertex.qset.threshold

\* Fbas::default()
EmptyFbas == [nodes |-> <<>>, edges |-> <<>>, validators |-> <<>>]

\* graph.node_weight(ni)
node_weight(fbas, ni) == fbas.nodes[ni + 1]

node_count(fbas) == Len(fbas.nodes)

node_indices(fbas) == 0..(Len(fbas.nodes) - 1)

\* Fbas::add_validator: the new vertex takes the next index
add_validator(fbas, v) ==
    [fbas EXCEPT !.nodes = Append(@, ValidatorVertex(v)),
                 !.validators = Append(@, Len(fbas.nodes))]

\* Fbas::get_validator
get_validator(fbas, ni) ==
    IF ni < Len(fbas.nodes) /\ node_weight(fbas, ni).kind = "Validator"
    THEN node_weight(fbas, ni).id
    ELSE "None"

\* DiGraph::add_edge: appends an edge, parallel edges allowed
add_edge(edges, a, b) == Append(edges, <<a, b>>)

\* Faulty variant of update_edge: add_edge in its place, parallel edges appear
update_edge_parallel(edges, a, b) == Append(edges, <<a, b>>)

\* DiGraph::update_edge: at most one edge a -> b
update_edge(edges, a, b) ==
    IF \E i \in DOMAIN edges : edges[i] = <<a, b>> THEN edges ELSE Append(edges, <<a, b>>)

RECURSIVE update_edges(_, _, _)
update_edges(edges, a, targets) ==
    IF targets = <<>> THEN edges
    ELSE update_edges(update_edge(edges, a, Head(targets)), a, Tail(targets))

\* DiGraph::neighbors: targets of the outgoing edges, most recently added first
RECURSIVE neighbors_from(_, _, _)
neighbors_from(edges, ni, i) ==
    IF i = 0 THEN <<>>
    ELSE IF edges[i][1] = ni
         THEN <<edges[i][2]>> \o neighbors_from(edges, ni, i - 1)
         ELSE neighbors_from(edges, ni, i - 1)

neighbors(fbas, ni) == neighbors_from(fbas.edges, ni, Len(fbas.edges))

-----------------------------------------------------------------------------
(* fbas.rs: the front ends build a QuorumSetMap = BTreeMap<String, Rc<..>> *)

EmptyMap == <<>>

MapKeys(m) == {m[i].key : i \in DOMAIN m}

MapGet(m, k) == (CHOOSE e \in Range(m) : e.key = k).value

\* Faulty variant of MapInsert: a map that keeps insertion order
MapInsert_append(m, k, v) ==
    IF \E i \in DOMAIN m : m[i].key = k
    THEN [i \in DOMAIN m |-> IF m[i].key = k THEN [key |-> k, value |-> v] ELSE m[i]]
    ELSE Append(m, [key |-> k, value |-> v])

\* BTreeMap::insert: entries are kept in ascending key order, and inserting
\* a key the map already holds replaces the value stored for it
MapInsert(m, k, v) ==
    IF k \in MapKeys(m)
    THEN [i \in DOMAIN m |-> IF m[i].key = k THEN [key |-> k, value |-> v] ELSE m[i]]
    ELSE SelectSeq(m, LAMBDA e : StrLess(e.key, k))
           \o <<[key |-> k, value |-> v]>>
           \o SelectSeq(m, LAMBDA e : StrLess(k, e.key))

\* the loop of from_quorum_set_map_buf: a pair whose quorum-set bytes are
\* empty is reported and skipped, every other pair is inserted
RECURSIVE quorum_set_map_from_buf(_, _)
quorum_set_map_from_buf(entries, m) ==
    IF entries = <<>> THEN m
    ELSE LET e == Head(entries)
         IN quorum_set_map_from_buf(Tail(entries),
                IF ~e.empty THEN MapInsert(m, e.node, e.qset) ELSE m)

\* the loop of try_parse_quorum_set_map_from_json_regular (and of the
\* stellarbeats variant): every node object is inserted
RECURSIVE quorum_set_map_from_json(_, _)
quorum_set_map_from_json(entries, m) ==
    IF entries = <<>> THEN m
    ELSE LET e == Head(entries)
         IN quorum_set_map_from_json(Tail(entries), MapInsert(m, e.node, e.qset))

-----------------------------------------------------------------------------
(* fbas.rs: Fbas::from_quorum_set_map and Fbas::process_scp_quorum_set *)

NoQsets == [q \in {} |-> 0]

\* Faulty variant of too_deep: the guard fires one level late
too_deep_late(curr_depth) == curr_depth > QUORUM_SET_MAX_DEPTH

\* the depth guard at the head of process_scp_quorum_set
too_deep(curr_depth) == curr_depth = QUORUM_SET_MAX_DEPTH

\* Faulty variant of lookup_validators: an unknown validator takes the
\* default index 0 instead of being left out
lookup_validators_default(validators, known_validators) ==
    {IF validators[i] \in DOMAIN known_validators THEN known_validators[validators[i]] ELSE 0 :
        i \in DOMAIN validators}

\* "Add validators": the indices of the listed validators that are known;
\* an unknown one is reported and left out
lookup_validators(validators, known_validators) ==
    {known_validators[validators[i]] :
        i \in {j \in DOMAIN validators : validators[j] \in DOMAIN known_validators}}

\* Faulty variant of intern_qset: the interning table is never consulted
intern_qset_fresh(nodes, known_qsets, new_qset) ==
    [idx |-> Len(nodes),
     nodes |-> Append(nodes, QSetVertex(new_qset)),
     known_qsets |-> [q \in DOMAIN known_qsets \cup {new_qset} |->
                        IF q = new_qset THEN Len(nodes) ELSE known_qsets[q]]]

\* "Create or reuse the quorum set node": [idx, nodes, known_qsets]
intern_qset(nodes, known_qsets, new_qset) ==
    IF new_qset \in DOMAIN known_qsets
    THEN [idx |-> known_qsets[new_qset], nodes |-> nodes, known_qsets |-> known_qsets]
    ELSE [idx |-> Len(nodes),
          nodes |-> Append(nodes, QSetVertex(new_qset)),
          known_qsets |-> known_qsets @@ (new_qset :> Len(nodes))]

\* Faulty variant of add_member_edges: the edge between a quorum set and an
\* inner set is drawn from the inner set
add_member_edges_reversed(edges, idx, new_qset) ==
    update_edges(edges, idx, SortedSeq(new_qset.validators))
        \o [i \in 1..Cardinality(new_qset.inner_qsets) |->
                <<SortedSeq(new_qset.inner_qsets)[i], idx>>]

\* Faulty variant of add_member_edges: the edge to an inner set is drawn
\* to the vertex itself
add_member_edges_self(edges, idx, new_qset) ==
    update_edges(update_edges(edges, idx, SortedSeq(new_qset.validators)),
                 idx, [i \in 1..Cardinality(new_qset.inner_qsets) |-> idx])

\* "Add edges": to the validators first, then to the inner sets, each in
\* ascending index order
add_member_edges(edges, idx, new_qset) ==
    update_edges(update_edges(edges, idx, SortedSeq(new_qset.validators)),
                 idx, SortedSeq(new_qset.inner_qsets))

\* The builder's state: the graph so far, the interning table, the
\* (key, index) pair of every completed process_scp_quorum_set call, whether
\* an error was raised, and the index the last call returned.
RECURSIVE process_scp_quorum_set(_, _, _, _)
RECURSIVE process_inner_sets(_, _, _, _, _)

\* "Process inner quorum sets": stops at the first error (the ? operator)
process_inner_sets(st, inner_sets, depth, known_validators, acc) ==
    IF inner_sets = <<>> \/ ~st.ok THEN [st |-> st, inner_qsets |-> acc]
    ELSE LET r == process_scp_quorum_set(st, Head(inner_sets), depth, known_validators)
         IN process_inner_sets(r, Tail(inner_sets), depth, known_validators,
                               IF r.ok THEN acc \cup {r.idx} ELSE acc)

process_scp_quorum_set(st, qset, curr_depth, known_validators) ==
    IF too_deep(curr_depth) THEN [st EXCEPT !.ok = FALSE]
    ELSE LET vals == lookup_validators(qset.validators, known_validators)
             inner == process_inner_sets(st, qset.inner_sets, curr_depth + 1,
                                         known_validators, {})
         IN IF ~inner.st.ok THEN inner.st
            ELSE LET new_qset == Qset(qset.threshold, vals, inner.inner_qsets)
                     s1 == inner.st
                     r == intern_qset(s1.fbas.nodes, s1.known_qsets, new_qset)
                 IN [fbas |-> [s1.fbas EXCEPT
                                  !.nodes = r.nodes,
                                  !.edges = add_member_edges(@, r.idx, new_qset)],
                     known_qsets |-> r.known_qsets,
                     log |-> Append(s1.log, [key |-> new_qset, idx |-> r.idx]),
                     ok |-> TRUE,
                     idx |-> r.idx]

\* "First pass: add all validators"
RECURSIVE first_pass(_, _, _)
first_pass(m, fbas, known_validators) ==
    IF m = <<>> THEN [fbas |-> fbas, known_validators |-> known_validators]
    ELSE first_pass(Tail(m), add_validator(fbas, Head(m).key),
                    known_validators @@ (Head(m).key :> Len(fbas.nodes)))

\* "Second pass: process quorum sets and create connections"
RECURSIVE second_pass(_, _, _)
second_pass(m, st, known_validators) ==
    IF m = <<>> \/ ~st.ok THEN st
    ELSE LET v_idx == known_validators[Head(m).key]
             r == process_scp_quorum_set(st, Head(m).value, 0, known_validators)
         IN IF ~r.ok THEN r
            ELSE second_pass(Tail(m),
                    [r EXCEPT !.fbas.edges = add_edge(@, v_idx, r.idx)],
                    known_validators)

NoValidators == [v \in {} |-> 0]

\* Fbas::from_quorum_set_map: Ok(fbas) or Err("qset exceeds max depth")
from_quorum_set_map(m) ==
    LET p1 == first_pass(m, EmptyFbas, NoValidators)
        p2 == second_pass(m, [fbas |-> p1.fbas, known_qsets |-> NoQsets, log |-> <<>>,
                              ok |-> TRUE, idx |-> 0], p1.known_validators)
    IN IF p2.ok
       THEN [ok |-> TRUE, fbas |-> p2.fbas, known_validators |-> p1.known_validators,
             known_qsets |-> p2.known_qsets, log |-> p2.log]
       ELSE [ok |-> FALSE, fbas |-> EmptyFbas, known_validators |-> NoValidators,
             known_qsets |-> NoQsets, log |-> <<>>]

NotBuilt == [ok |-> FALSE, fbas |-> EmptyFbas, known_validators |-> NoValidators,
             known_qsets |-> NoQsets, log |-> <<>>]

-----------------------------------------------------------------------------
(* fbas_analyze.rs: FbasLitsWrapper and FbasAnalyzer::construct_formula *)

\* Lit::new(Var::from_index(x), true) and its negation
PosLit(x) == x + 1

Neg(l) == 0 - l

VarOf(l) == IF l > 0 THEN l - 1 ELSE (0 - l) - 1

\* FbasLitsWrapper::in_quorum_a
in_quorum_a(ni, vertex_count) == PosLit(ni)

\* FbasLitsWrapper::in_quorum_b
in_quorum_b(ni, vertex_count) == PosLit(ni + vertex_count)

\* Faulty variant of combinations: the windows of k neighbouring elements,
\* as slice::windows yields them
combinations_windows(s, k) ==
    IF k = 0 THEN << <<>> >>
    ELSE IF Len(s) < k THEN <<>>
    ELSE [i \in 1..(Len(s) - k + 1) |-> SubSeq(s, i, i + k - 1)]

\* itertools combinations(k) of a sequence, in the order itertools yields them
RECURSIVE combinations(_, _)
combinations(s, k) ==
    IF k = 0 THEN << <<>> >>
    ELSE IF Len(s) < k THEN <<>>
    ELSE LET with == combinations(Tail(s), k - 1)
         IN [i \in DOMAIN with |-> <<Head(s)>> \o with[i]] \o combinations(Tail(s), k)

\* Solver::new: no variable, no clause
NewSolver == [num_vars |-> 0, clauses |-> <<>>]

\* solver.add_clause_reuse(clause)
add_clause(sv, clause) == [sv EXCEPT !.clauses = Append(@, clause)]

\* "formula 1": one clause per quorum over the validators' literals
non_empty_clauses(sv, fbas) ==
    LET n == node_count(fbas)
        vs == fbas.validators
    IN add_clause(add_clause(sv, [i \in DOMAIN vs |-> in_quorum_a(vs[i], n)]),
                  [i \in DOMAIN vs |-> in_quorum_b(vs[i], n)])

\* Faulty variant of disjoint_clauses: "formula 2" is written for every
\* vertex of the graph, QSet vertices included
disjoint_clauses_all(sv, vs, n) ==
    [sv EXCEPT !.clauses = @ \o [i \in 1..n |-> <<Neg(in_quorum_a(i - 1, n)),
                                                  Neg(in_quorum_b(i - 1, n))>>]]

\* Faulty variant of disjoint_clauses: "formula 2" is left out
disjoint_clauses_none(sv, validators, n) == sv

\* "formula 2": one clause per validator
RECURSIVE disjoint_clauses(_, _, _)
disjoint_clauses(sv, vs, n) ==
    IF vs = <<>> THEN sv
    ELSE disjoint_clauses(
            add_clause(sv, <<Neg(in_quorum_a(Head(vs), n)), Neg(in_quorum_b(Head(vs), n))>>),
            Tail(vs), n)

\* the closure handed to add_clauses_for_quorum_relations: q is "a" for
\* |ni| in_quorum_a(ni) and "b" for |ni| in_quorum_b(ni)
in_quorum(q, ni, n) == IF q = "a" THEN in_quorum_a(ni, n) ELSE in_quorum_b(ni, n)

\* Faulty variant of slice_member_clauses: the implication clauses are lost
slice_member_clauses_none(sv, aq_i, xi_j, elems, q, n) == sv

\* the body of the loop over q_slice: [!aq_i, !xi_j, elit] for each elem
RECURSIVE slice_member_clauses(_, _, _, _, _, _)
slice_member_clauses(sv, aq_i, xi_j, elems, q, n) ==
    IF elems = <<>> THEN sv
    ELSE slice_member_clauses(
            add_clause(sv, <<Neg(aq_i), Neg(xi_j), in_quorum(q, Head(elems), n)>>),
            aq_i, xi_j, Tail(elems), q, n)

\* the loop over the combinations of one vertex: a fresh proposition per
\* combination, its clauses, and the proposition appended to third_term
RECURSIVE slice_clauses(_, _, _, _, _, _)
slice_clauses(sv, aq_i, combos, third_term, q, n) ==
    IF combos = <<>> THEN add_clause(sv, third_term)
    ELSE LET q_slice == Head(combos)
             xi_j == PosLit(sv.num_vars)
             s1 == [sv EXCEPT !.num_vars = @ + 1]
             s2 == slice_member_clauses(s1, aq_i, xi_j, q_slice, q, n)
             neg_pi_j == <<Neg(aq_i), xi_j>>
                           \o [k \in DOMAIN q_slice |-> Neg(in_quorum(q, q_slice[k], n))]
         IN slice_clauses(add_clause(s2, neg_pi_j), aq_i, Tail(combos),
                          Append(third_term, xi_j), q, n)

\* Faulty variant of vertex_clauses: a threshold above the number of
\* successors is cut down to that number
vertex_clauses_clamped(sv, fbas, ni, q) ==
    LET n == node_count(fbas)
        aq_i == in_quorum(q, ni, n)
        succ == neighbors(fbas, ni)
        threshold == IF get_threshold(node_weight(fbas, ni)) > Len(succ)
                     THEN Len(succ)
                     ELSE get_threshold(node_weight(fbas, ni))
    IN slice_clauses(sv, aq_i, combinations(succ, threshold), <<Neg(aq_i)>>, q, n)

\* "formula 3" for one vertex
vertex_clauses(sv, fbas, ni, q) ==
    LET n == node_count(fbas)
        aq_i == in_quorum(q, ni, n)
        threshold == get_threshold(node_weight(fbas, ni))
        qset == combinations(neighbors(fbas, ni), threshold)
    IN slice_clauses(sv, aq_i, qset, <<Neg(aq_i)>>, q, n)

\* add_clauses_for_quorum_relations: every vertex in index order; loop holds
\* the solver so far and the index of the next vertex of the for loop
RECURSIVE add_clauses_for_quorum_relations(_, _, _)
add_clauses_for_quorum_relations(loop, fbas, q) ==
    IF loop.ni >= node_count(fbas) THEN loop.sv
    ELSE add_clauses_for_quorum_relations(
            [sv |-> vertex_clauses(loop.sv, fbas, loop.ni, q), ni |-> loop.ni + 1],
            fbas, q)

\* Faulty variant of construct_formula: one base variable per vertex
construct_formula_half(fbas) ==
    LET n == node_count(fbas)
        s0 == [NewSolver EXCEPT !.num_vars = n]
        s1 == non_empty_clauses(s0, fbas)
        s2 == disjoint_clauses(s1, fbas.validators, n)
        s3 == add_clauses_for_quorum_relations([sv |-> s2, ni |-> 0], fbas, "a")
    IN add_clauses_for_quorum_relations([sv |-> s3, ni |-> 0], fbas, "b")

\* FbasAnalyzer::construct_formula on a fresh solver
construct_formula(fbas) ==
    LET n == node_count(fbas)
        s0 == [NewSolver EXCEPT !.num_vars = 2 * n]
        s1 == non_empty_clauses(s0, fbas)
        s2 == disjoint_clauses(s1, fbas.validators, n)
        s3 == add_clauses_for_quorum_relations([sv |-> s2, ni |-> 0], fbas, "a")
    IN add_clauses_for_quorum_relations([sv |-> s3, ni |-> 0], fbas, "b")

-----------------------------------------------------------------------------
(* The SAT solver behind solve_limited_th_full: sound and complete.  It    *)
(* answers Sat(model) for some model of the clauses, Unsat when there is   *)
(* none.  Satisfiability is decided by DPLL over the clause set.           *)

ClauseSet(clauses) == {Range(clauses[i]) : i \in DOMAIN clauses}

\* the clause set once every literal of lits is made true
AssignAll(cls, lits) ==
    {c \ {Neg(l) : l \in lits} : c \in {d \in cls : d \cap lits = {}}}

\* the clause set once literal l is made true
Assign(cls, l) == AssignAll(cls, {l})

\* the literals of the unit clauses
Units(cls) == UNION {c \in cls : Cardinality(c) = 1}

\* the literals a model may as well make true: those of the unit clauses
\* and those whose negation occurs in no clause
Forced(cls) == Units(cls) \cup {l \in UNION cls : Neg(l) \notin UNION cls}

\* the literal to branch on: of the least variable that still occurs
Branch(cls) == CHOOSE l \in UNION cls : \A k \in UNION cls : VarOf(l) <= VarOf(k)

RECURSIVE Satisfiable(_)
Satisfiable(cls) ==
    \/ cls = {}
    \/ /\ {} \notin cls
       /\ Forced(cls) /= {}
       /\ \A l \in Units(cls) : Neg(l) \notin Units(cls)
       /\ Satisfiable(AssignAll(cls, Forced(cls)))
    \/ /\ cls /= {}
       /\ {} \notin cls
       /\ Forced(cls) = {}
       /\ Satisfiable(Assign(cls, Branch(cls)))
    \/ /\ cls /= {}
       /\ {} \notin cls
       /\ Forced(cls) = {}
       /\ Satisfiable(Assign(cls, Neg(Branch(cls))))

\* the clause set under a partial assignment m : variables -> BOOLEAN
Assume(cls, m) ==
    AssignAll(cls, {IF m[x] THEN PosLit(x) ELSE Neg(PosLit(x)) : x \in DOMAIN m})

\* the values a model of the clauses can give to the variables in xs
SolverModels(sv, xs) ==
    LET cls == ClauseSet(sv.clauses)
    IN {m \in [xs -> BOOLEAN] : Satisfiable(Assume(cls, m))}

-----------------------------------------------------------------------------
(* fbas_analyze.rs: FbasAnalyzer::solve and get_potential_split *)

UNKNOWN == [kind |-> "UNKNOWN", quorum_a |-> <<>>, quorum_b |-> <<>>]

UNSAT == [kind |-> "UNSAT", quorum_a |-> <<>>, quorum_b |-> <<>>]

SAT(qa, qb) == [kind |-> "SAT", quorum_a |-> qa, quorum_b |-> qb]

\* the variables solve() reads back: both literals of every validator
read_vars(fbas) ==
    LET n == node_count(fbas)
    IN {VarOf(in_quorum_a(ni, n)) : ni \in Range(fbas.validators)}
         \cup {VarOf(in_quorum_b(ni, n)) : ni \in Range(fbas.validators)}

\* the SolveResult::Sat arm: push every validator whose literal is TRUE
lift_model(fbas, model) ==
    LET n == node_count(fbas)
    IN SAT(SelectSeq(fbas.validators, LAMBDA ni : model[VarOf(in_quorum_a(ni, n))]),
           SelectSeq(fbas.validators, LAMBDA ni : model[VarOf(in_quorum_b(ni, n))]))

\* every status an uninterrupted solve() can store and return
solve_results(fbas, sv) ==
    LET models == SolverModels(sv, read_vars(fbas))
    IN IF models = {} THEN {UNSAT} ELSE {lift_model(fbas, m) : m \in models}

\* FbasAnalyzer::get_potential_split
get_potential_split(fbas, st) ==
    IF st.kind = "SAT"
    THEN <<[i \in DOMAIN st.quorum_a |-> get_validator(fbas, st.quorum_a[i])],
           [i \in DOMAIN st.quorum_b |-> get_validator(fbas, st.quorum_b[i])]>>
    ELSE <<<<>>, <<>>>>

-----------------------------------------------------------------------------
(* The inputs the front ends are given *)

\* the identifiers of a list are in strictly ascending order
RECURSIVE Ascending(_)
Ascending(s) == Len(s) < 2 \/ (StrLess(s[1], s[2]) /\ Ascending(Tail(s)))

\* quorum sets without inner sets
FlatQSets ==
    {IQS(t, vs, <<>>) : t \in 0..MaxThreshold, vs \in SeqsUpTo(Members, MaxMembers)}

\* the inner sets of the nested quorum sets
InnerLeaves ==
    {IQS(1, vs, <<>>) : vs \in {<<"v1">>, <<"v2">>, <<"v1", "v4">>, <<"v2", "v4">>}}

\* quorum sets of two levels: no validator of their own, one or two inner sets
NestedQSets ==
    {IQS(t, <<>>, inner) : t \in 1..MaxThreshold,
                           inner \in SeqsUpTo(InnerLeaves, 2) \ {<<>>}}

\* q wrapped k times in a threshold-1 set that has q as its only member
RECURSIVE Wrap(_, _)
Wrap(q, k) == IF k = 0 THEN q ELSE IQS(1, <<>>, <<Wrap(q, k - 1)>>)

\* quorum sets of 3 .. MaxNest levels, the deep part as the only inner set
\* or as the second of two
ChainQSets ==
    {Wrap(IQS(1, <<"v1">>, <<>>), k) : k \in 2..(MaxNest - 1)}
      \cup {IQS(1, <<>>, <<IQS(1, <<"v2">>, <<>>), Wrap(IQS(1, <<"v1">>, <<>>), k)>>) :
               k \in 1..(MaxNest - 2)}

\* a few quorum sets, for the inputs that repeat a key or insert out of order
SmallQSets ==
    {IQS(1, <<"v1">>, <<>>), IQS(1, <<"v2">>, <<>>), IQS(1, <<"v1", "v2">>, <<>>),
     IQS(2, <<"v1", "v2">>, <<>>), IQS(0, <<>>, <<>>)}

\* flat quorum sets over the keys alone, members ascending, for three validators
TripleQSets ==
    {IQS(t, vs, <<>>) : t \in 1..MaxThreshold,
                        vs \in {s \in SeqsUpTo(Keys, MaxMembers) : s /= <<>> /\ Ascending(s)}}

Entry(k, q) == [node |-> k, empty |-> FALSE, qset |-> q]

\* a pair of from_quorum_set_map_buf whose quorum-set bytes are empty
EmptyEntry(k) == [node |-> k, empty |-> TRUE, qset |-> IQS(0, <<>>, <<>>)]

\* a validator beside two inner sets that differ in their threshold: three
\* successors for the quorum set of "v1"
MixedQSets ==
    {IQS(t, <<"v1">>, <<IQS(1, <<"v1">>, <<>>), IQS(2, <<"v1">>, <<>>)>>) :
        t \in 1..MaxThreshold}

\* one pair, any quorum set
SingleEntries ==
    {<<Entry(k, q)>> : k \in Keys,
                       q \in FlatQSets \cup NestedQSets \cup ChainQSets \cup MixedQSets}

\* v1 then v2, both flat with a threshold of at least 1, the members of
\* v2's set ascending
FlatPairs ==
    {<<Entry("v1", q1), Entry("v2", q2)>> :
        q1 \in {q \in FlatQSets : q.threshold >= 1},
        q2 \in {q \in FlatQSets : q.threshold >= 1 /\ Ascending(q.validators)}}

\* v1 nested, v2 declaring the same set or a flat set of one validator
NestedPairs ==
    UNION {{<<Entry("v1", q1), Entry("v2", q2)>> :
               q2 \in {q1, IQS(1, <<"v1">>, <<>>), IQS(1, <<"v2">>, <<>>)}} :
           q1 \in NestedQSets \cup ChainQSets}

\* v1 flat, v2 nested
DeepPairs ==
    {<<Entry("v1", q1), Entry("v2", q2)>> : q1 \in SmallQSets, q2 \in ChainQSets}

\* two pairs in any key order, the same key twice included
SmallPairs(entries) == {<<e1, e2>> : e1 \in entries, e2 \in entries}

SmallEntries == {Entry(k, q) : k \in {"v1", "v2"}, q \in SmallQSets}

\* three validators; in the buffer form the third may come with empty bytes
Triples(third) ==
    {<<Entry("v1", q1), Entry("v2", q2), e3>> :
        q1 \in TripleQSets, q2 \in TripleQSets, e3 \in third}

BufInputs ==
    {[source |-> "buf", entries |-> es] :
        es \in {<<>>} \cup SingleEntries \cup {<<EmptyEntry(k)>> : k \in Keys}
               \cup FlatPairs \cup NestedPairs \cup DeepPairs
               \cup SmallPairs(SmallEntries \cup {EmptyEntry(k) : k \in {"v1", "v2"}})
               \cup Triples({Entry("v3", q) : q \in TripleQSets} \cup {EmptyEntry("v3")})}

JsonInputs ==
    {[source |-> "json", entries |-> es] :
        es \in {<<>>} \cup SingleEntries \cup SmallPairs(SmallEntries)}

Inputs == BufInputs \cup JsonInputs

-----------------------------------------------------------------------------
(* The caller: build, construct the analyzer, solve, read the split *)

\* the threads of the process, each running an analyzer of its own; whatever
\* an analyzer builds or solves is allocated through the global allocator
Threads == {"t1", "t2"}

\* no alloc call in progress
NoRequest == [size |-> 0, old |-> 0, total |-> 0, held |-> 0]

\* the static ALLOCATOR before any allocation: allocated: AtomicUsize::new(0)
AllocatorNew ==
    /\ allocated = 0
    /\ req = [t \in Threads |-> NoRequest]
    /\ heap = [t \in Threads |-> <<>>]
    /\ outcome = [t \in Threads |-> "none"]
    /\ lost = <<>>

Init ==
    /\ pc = "start"
    /\ input \in Inputs
    /\ qsm = EmptyMap
    /\ build = NotBuilt
    /\ solver = NewSolver
    /\ status = UNKNOWN
    /\ split = <<<<>>, <<>>>>
    /\ stop = FALSE
    /\ returned = <<>>
    /\ AllocatorNew

\* Fbas::from_quorum_set_map_buf(nodes, quorum_set)
FromQuorumSetMapBuf ==
    /\ pc = "start"
    /\ input.source = "buf"
    /\ LET m == quorum_set_map_from_buf(input.entries, EmptyMap)
           r == from_quorum_set_map(m)
       IN /\ qsm' = m
          /\ build' = r
          /\ pc' = IF r.ok THEN "built" ELSE "failed"
    /\ UNCHANGED <<input, solver, status, split, stop, returned, allocVars>>

\* Fbas::from_json(path)
FromJson ==
    /\ pc = "start"
    /\ input.source = "json"
    /\ LET m == quorum_set_map_from_json(input.entries, EmptyMap)
           r == from_quorum_set_map(m)
       IN /\ qsm' = m
          /\ build' = r
          /\ pc' = IF r.ok THEN "built" ELSE "failed"
    /\ UNCHANGED <<input, solver, status, split, stop, returned, allocVars>>

\* FbasAnalyzer::new(fbas, cb)
New ==
    /\ pc = "built"
    /\ solver' = construct_formula(build.fbas)
    /\ status' = UNKNOWN
    /\ pc' = "ready"
    /\ UNCHANGED <<input, qsm, build, split, stop, returned, allocVars>>

\* FbasAnalyzer::solve(), not interrupted
Solve ==
    /\ pc = "ready"
    /\ \E r \in solve_results(build.fbas, solver) : status' = r
    /\ pc' = "solved"
    /\ UNCHANGED <<input, qsm, build, solver, split, stop, returned, allocVars>>

\* FbasAnalyzer::get_potential_split()
GetPotentialSplit ==
    /\ pc = "solved"
    /\ split' = get_potential_split(build.fbas, status)
    /\ pc' = "done"
    /\ UNCHANGED <<input, qsm, build, solver, status, stop, returned, allocVars>>

Next ==
    \/ FromQuorumSetMapBuf
    \/ FromJson
    \/ New
    \/ Solve
    \/ GetPotentialSplit

Spec == Init /\ [][Next]_vars

-----------------------------------------------------------------------------
(* What the claims are stated against: the declarations of the map itself. *)

\* the analyzer has been solved (and perhaps read)
Solved == pc \in {"solved", "done"}

\* the front end has returned
Returned == pc /= "start"

\* the graph of a successful build is there
Built == pc \in {"built", "ready", "solved", "done"}

\* a declared quorum set is satisfied by the validator set S: at least
\* threshold of its members are in: the listed validators that are in S
\* (a validator listed twice is one member) and the inner sets S satisfies
RECURSIVE SliceSatisfied(_, _)
SliceSatisfied(q, S) ==
    Cardinality(Range(q.validators) \cap S)
      + Cardinality({i \in DOMAIN q.inner_sets : SliceSatisfied(q.inner_sets[i], S)})
        >= q.threshold

\* S is a quorum of the FBAS that the map m declares
IsQuorum(m, S) ==
    /\ S \subseteq MapKeys(m)
    /\ \A v \in S : SliceSatisfied(MapGet(m, v), S)

\* the reference verdict: two disjoint non-empty quorums exist
DisjointQuorumsExist(m) ==
    \E A \in SUBSET MapKeys(m) \ {{}} :
        /\ IsQuorum(m, A)
        /\ \E B \in SUBSET (MapKeys(m) \ A) \ {{}} : IsQuorum(m, B)

\* the identifiers of a list of node indices
IdsOf(fbas, list) == {get_validator(fbas, list[i]) : i \in DOMAIN list}

\* levels of nesting of a declared quorum set, the top level being 1
RECURSIVE Levels(_)
RECURSIVE MaxLevels(_)
MaxLevels(qs) ==
    IF qs = <<>> THEN 0
    ELSE LET h == Levels(Head(qs))
             t == MaxLevels(Tail(qs))
         IN IF h > t THEN h ELSE t
Levels(q) == 1 + MaxLevels(q.inner_sets)

\* the declared quorum sets of one declaration in the order their
\* process_scp_quorum_set calls complete: inner sets first
RECURSIVE PostOrder(_)
RECURSIVE PostOrderAll(_)
PostOrderAll(qs) ==
    IF qs = <<>> THEN <<>> ELSE PostOrder(Head(qs)) \o PostOrderAll(Tail(qs))
PostOrder(q) == PostOrderAll(q.inner_sets) \o <<q>>

\* all declared quorum sets of the map in that order
Declared(m) == PostOrderAll([i \in DOMAIN m |-> m[i].value])

\* every identifier listed in some declared quorum set
Referenced(m) == UNION {Range(q.validators) : q \in Range(Declared(m))}

\* targets of the outgoing edges of vertex ni
Successors(fbas, ni) == Range(neighbors(fbas, ni))

out_degree(fbas, ni) == Len(neighbors(fbas, ni))

\* the graph (N, E) has no cycle: peeling off the vertices without a
\* successor among those left ends with none left
RECURSIVE NoCycle(_, _)
NoCycle(N, E) ==
    IF N = {} THEN TRUE
    ELSE LET sinks == {x \in N : ~\E ed \in E : ed[1] = x /\ ed[2] \in N}
         IN IF sinks = {} THEN FALSE ELSE NoCycle(N \ sinks, E)

EdgeSet(fbas) == Range(fbas.edges)

KindOf(fbas, ni) == node_weight(fbas, ni).kind

QSetNodes(fbas) == {ni \in node_indices(fbas) : KindOf(fbas, ni) = "QSet"}

ValidatorNodes(fbas) == {ni \in node_indices(fbas) : KindOf(fbas, ni) = "Validator"}

\* the identifiers that are listed in a quorum set and have no entry
Unknown(m) == Referenced(m) \ MapKeys(m)

-----------------------------------------------------------------------------
(* C1 *)

\* C1: whenever solve() returns SAT(A, B), both lists are non-empty, they
\* share no validator, and each is a quorum of the declared FBAS: every
\* validator in the list has its declared quorum set satisfied by the list.
C1_WitnessSound ==
    (Solved /\ status.kind = "SAT") =>
        LET A == IdsOf(build.fbas, status.quorum_a)
            B == IdsOf(build.fbas, status.quorum_b)
        IN /\ A /= {} /\ B /= {}
           /\ A \cap B = {}
           /\ IsQuorum(qsm, A)
           /\ IsQuorum(qsm, B)

\* a SAT verdict over three validators, one quorum holding two of them
C1_Witness ==
    /\ pc = "solved"
    /\ status.kind = "SAT"
    /\ Len(status.quorum_a) + Len(status.quorum_b) >= 3

-----------------------------------------------------------------------------
(* C2 *)

\* C2: whenever two disjoint non-empty quorums exist under the declared
\* quorum sets, an uninterrupted solve() returns SAT.
C2_Complete ==
    (pc = "solved" /\ DisjointQuorumsExist(qsm)) => status.kind = "SAT"

-----------------------------------------------------------------------------
(* C3 *)

\* C3: an UNSAT verdict means that no two disjoint non-empty validator sets
\* are both quorums; the verdict is SAT exactly when the reference verdict is.
C3_UnsatMeansIntersection ==
    pc = "solved" =>
        /\ status.kind = "UNSAT" =>
              \A A \in SUBSET MapKeys(qsm) \ {{}} :
                 \A B \in SUBSET (MapKeys(qsm) \ A) \ {{}} :
                    ~(IsQuorum(qsm, A) /\ IsQuorum(qsm, B))
        /\ (status.kind = "SAT") <=> DisjointQuorumsExist(qsm)

-----------------------------------------------------------------------------
(* C4 *)

\* v1 declares {t=1, [v2]} and v2 declares {t=1, [v1]}
MutualMap ==
    <<[key |-> "v1", value |-> IQS(1, <<"v2">>, <<>>)],
      [key |-> "v2", value |-> IQS(1, <<"v1">>, <<>>)]>>

\* C4 as claimed: for the two validators that each declare the other as
\* threshold-1 quorum set, solve() returns SAT with A = {v1} and B = {v2}.
C4_MutualSat ==
    (Solved /\ qsm = MutualMap) => status = SAT(<<0>>, <<1>>)

\* C4 as amended: for that FBAS solve() returns UNSAT (v1 needs v2 and v2
\* needs v1, so the only quorum is {v1, v2}) and the split read back is empty.
C4_MutualUnsat ==
    (Solved /\ qsm = MutualMap) =>
        /\ status = UNSAT
        /\ pc = "done" => split = <<<<>>, <<>>>>

\* the analyzer of that FBAS has been solved
C4_Witness == pc = "solved" /\ qsm = MutualMap

-----------------------------------------------------------------------------
(* C5 *)

\* C5 as claimed: the built graph is acyclic, no vertex reaches itself.
C5_Dag ==
    Built => NoCycle(node_indices(build.fbas), EdgeSet(build.fbas))

\* C5 as amended: the built graph is acyclic once the Validator -> QSet
\* edges are left out; every cycle passes through a Validator vertex.
C5_CyclesThroughValidators ==
    Built =>
        NoCycle(node_indices(build.fbas),
                {e \in EdgeSet(build.fbas) : e[1] \in QSetNodes(build.fbas)})

\* a built graph with a cycle and with a QSet -> QSet edge
C5_Witness ==
    /\ pc = "built"
    /\ ~NoCycle(node_indices(build.fbas), EdgeSet(build.fbas))
    /\ \E e \in EdgeSet(build.fbas) :
          KindOf(build.fbas, e[1]) = "QSet" /\ KindOf(build.fbas, e[2]) = "QSet"

-----------------------------------------------------------------------------
(* C6 *)

\* C6 as claimed: in every built graph each vertex's threshold is at most
\* its out-degree, and a Validator vertex has threshold 1 and one edge.
C6_ThresholdWithinDegree ==
    Built =>
        \A ni \in node_indices(build.fbas) :
            /\ get_threshold(node_weight(build.fbas, ni)) <= out_degree(build.fbas, ni)
            /\ KindOf(build.fbas, ni) = "Validator" =>
                  /\ get_threshold(node_weight(build.fbas, ni)) = 1
                  /\ out_degree(build.fbas, ni) = 1

\* C6 as amended: a Validator vertex has threshold 1 and exactly one
\* outgoing edge, to a QSet vertex.  A QSet vertex keeps the declared
\* threshold and has one outgoing edge per distinct successor, so its
\* threshold is at most its out-degree exactly when the declared threshold
\* is at most the number of distinct known validators and distinct inner
\* vertices among its members.
C6_DegreeOfDeclaration ==
    Built =>
        /\ \A ni \in ValidatorNodes(build.fbas) :
              /\ get_threshold(node_weight(build.fbas, ni)) = 1
              /\ out_degree(build.fbas, ni) = 1
              /\ Successors(build.fbas, ni) \subseteq QSetNodes(build.fbas)
        /\ Len(build.log) = Len(Declared(qsm))
        /\ \A i \in DOMAIN build.log :
              LET d == Declared(qsm)[i]
                  ni == build.log[i].idx
                  distinct == Cardinality(Range(d.validators) \cap MapKeys(qsm))
                                + Cardinality(build.log[i].key.inner_qsets)
              IN /\ get_threshold(node_weight(build.fbas, ni)) = d.threshold
                 /\ out_degree(build.fbas, ni) = distinct
                 /\ out_degree(build.fbas, ni) <= Len(d.validators) + Len(d.inner_sets)
                 /\ (get_threshold(node_weight(build.fbas, ni)) <= out_degree(build.fbas, ni))
                       <=> (d.threshold <= distinct)

\* a built graph with a QSet vertex whose threshold exceeds its out-degree
\* after an unknown validator was dropped and two inner sets collapsed
C6_Witness ==
    /\ pc = "built"
    /\ Unknown(qsm) /= {}
    /\ \E i \in DOMAIN build.log :
          /\ Cardinality(build.log[i].key.inner_qsets) < Len(Declared(qsm)[i].inner_sets)
          /\ build.log[i].key.threshold > out_degree(build.fbas, build.log[i].idx)

-----------------------------------------------------------------------------
(* C7 *)

\* C7: from_quorum_set_map fails exactly when some entry's declared quorum
\* set nests more than 4 levels deep, whichever entry that is.
C7_DepthBound ==
    Returned =>
        /\ (pc = "failed") <=> (\E i \in DOMAIN qsm : Levels(qsm[i].value) > 4)
        /\ build.ok <=> (\A i \in DOMAIN qsm : Levels(qsm[i].value) <= 4)

\* a failed build whose first entry is not the one that nests too deep
C7_Witness ==
    /\ pc = "failed"
    /\ Len(qsm) = 2
    /\ Levels(qsm[1].value) <= 4

-----------------------------------------------------------------------------
(* C8 *)

\* C8: an identifier listed in a quorum set without an entry of its own
\* does not fail the build, has no vertex, is no successor of a QSet vertex
\* (whose validator successors are exactly the known listed ones) and is in
\* neither list of the witness nor of the split read back.
C8_UnknownDropped ==
    \A u \in Unknown(qsm) :
        /\ (Returned /\ \A i \in DOMAIN qsm : Levels(qsm[i].value) <= 4) => build.ok
        /\ Built =>
              /\ \A ni \in node_indices(build.fbas) : get_validator(build.fbas, ni) /= u
              /\ \A i \in DOMAIN build.log :
                    /\ build.log[i].key.validators \subseteq ValidatorNodes(build.fbas)
                    /\ {get_validator(build.fbas, ni) : ni \in build.log[i].key.validators}
                          = Range(Declared(qsm)[i].validators) \cap MapKeys(qsm)
              /\ \A e \in EdgeSet(build.fbas) : get_validator(build.fbas, e[2]) /= u
        /\ Solved =>
              /\ u \notin IdsOf(build.fbas, status.quorum_a)
              /\ u \notin IdsOf(build.fbas, status.quorum_b)
              /\ u \notin Range(split[1]) \cup Range(split[2])

\* a split read back from a SAT verdict while some quorum set lists a
\* validator that was handed in with empty quorum-set bytes
C8_Witness ==
    /\ pc = "done"
    /\ status.kind = "SAT"
    /\ \E i \in DOMAIN input.entries :
          input.entries[i].empty /\ input.entries[i].node \in Unknown(qsm)

-----------------------------------------------------------------------------
(* C9 *)

\* two of the pairs handed in carry the same key (and a quorum set each)
DuplicateKey(entries) ==
    \E i, j \in DOMAIN entries :
        /\ i < j
        /\ ~entries[i].empty /\ ~entries[j].empty
        /\ entries[i].node = entries[j].node

\* C9: an input that supplies the same top-level key twice is rejected; it
\* is never accepted with one declaration replacing the other.
C9_DuplicateRejected ==
    (Returned /\ DuplicateKey(input.entries)) => pc = "failed"

-----------------------------------------------------------------------------
(* C10 *)

\* C10: the number of QSet vertices equals the number of distinct keys among
\* the processed quorum sets; quorum sets with equal keys are given the same
\* vertex, the one that carries the key, and no two QSet vertices carry
\* equal keys.
C10_InterningCanonical ==
    Built =>
        /\ Cardinality(QSetNodes(build.fbas))
              = Cardinality({build.log[i].key : i \in DOMAIN build.log})
        /\ \A i \in DOMAIN build.log :
              /\ build.log[i].idx \in QSetNodes(build.fbas)
              /\ node_weight(build.fbas, build.log[i].idx) = QSetVertex(build.log[i].key)
              /\ \A j \in DOMAIN build.log :
                    build.log[i].key = build.log[j].key => build.log[i].idx = build.log[j].idx
        /\ \A a, b \in QSetNodes(build.fbas) :
              a /= b => node_weight(build.fbas, a) /= node_weight(build.fbas, b)

\* two different declarations, of different validators, share one vertex
C10_Witness ==
    /\ pc = "built"
    /\ Len(qsm) = 2
    /\ qsm[1].value /= qsm[2].value
    /\ Successors(build.fbas, 0) = Successors(build.fbas, 1)

-----------------------------------------------------------------------------
(* C11 *)

ReverseSeq(s) == [i \in DOMAIN s |-> s[Len(s) + 1 - i]]

\* the map the front end that was used builds from the given pairs
FrontEnd(source, entries) ==
    IF source = "buf" THEN quorum_set_map_from_buf(entries, EmptyMap)
    ELSE quorum_set_map_from_json(entries, EmptyMap)

\* the keys the input declares, pairs with empty quorum-set bytes left out
DeclaredKeys(entries) == {entries[i].node : i \in {j \in DOMAIN entries : ~entries[j].empty}}

\* C11: the validators of a built graph are the declared keys, registered in
\* ascending order of identifier at the indices 0, 1, 2, ... whatever the
\* order of insertion; and the same pairs inserted in the opposite order
\* give the same map, hence the same graph.
C11_InsertionOrderIrrelevant ==
    Built =>
        /\ build.fbas.validators = [i \in 1..Cardinality(DeclaredKeys(input.entries)) |-> i - 1]
        /\ IdsOf(build.fbas, build.fbas.validators) = DeclaredKeys(input.entries)
        /\ \A i, j \in DOMAIN build.fbas.validators :
              i < j => StrLess(get_validator(build.fbas, build.fbas.validators[i]),
                               get_validator(build.fbas, build.fbas.validators[j]))
        /\ ~DuplicateKey(input.entries) =>
              /\ FrontEnd(input.source, ReverseSeq(input.entries)) = qsm
              /\ from_quorum_set_map(FrontEnd(input.source, ReverseSeq(input.entries))).fbas
                    = build.fbas

\* two validators were inserted in descending order of identifier
C11_Witness ==
    /\ pc = "built"
    /\ Len(input.entries) = 2
    /\ ~input.entries[1].empty /\ ~input.entries[2].empty
    /\ StrLess(input.entries[2].node, input.entries[1].node)
    /\ Len(build.fbas.edges) >= 3

-----------------------------------------------------------------------------
(* C12 *)

\* the analyzer has been constructed
Constructed == pc \in {"ready", "solved", "done"}

\* the clauses of "formula 3": all but the two non-emptiness clauses and the
\* one disjointness clause per validator
RelationClauses(sv, fbas) ==
    SubSeq(sv.clauses, 3 + Len(fbas.validators), Len(sv.clauses))

\* a clause of "formula 3" whose literals after the first are all positive:
\* the closing clause of a vertex
IsThirdTerm(c) == \A k \in 2..Len(c) : c[k] > 0

\* the positions of a "formula 3" clause that hold a proposition made by
\* new_proposition: the second one, and all but the first of a closing clause
AuxPositions(c) == IF IsThirdTerm(c) THEN 2..Len(c) ELSE {2} \cap DOMAIN c

AuxVars(sv, fbas) ==
    LET rc == RelationClauses(sv, fbas)
    IN UNION {{VarOf(rc[i][k]) : k \in AuxPositions(rc[i])} : i \in DOMAIN rc}

\* the variables at every other position of every clause
BaseVarsUsed(sv, fbas) ==
    LET rc == RelationClauses(sv, fbas)
        head == SubSeq(sv.clauses, 1, 2 + Len(fbas.validators))
    IN UNION {{VarOf(rc[i][k]) : k \in DOMAIN rc[i] \ AuxPositions(rc[i])} : i \in DOMAIN rc}
         \cup UNION {{VarOf(head[i][k]) : k \in DOMAIN head[i]} : i \in DOMAIN head}

\* C12: with N vertices, variable i is the quorum-A literal of vertex i and
\* variable N + i its quorum-B literal; the propositions made for the
\* combinations take the indices from 2N up to the solver's variable count,
\* so none of them is a variable that solve() reads back, and every other
\* literal of every clause is an A- or B-literal of a vertex.
C12_VariableLayout ==
    Constructed =>
        LET N == node_count(build.fbas)
            aux == AuxVars(solver, build.fbas)
        IN /\ \A ni \in node_indices(build.fbas) :
                 /\ in_quorum_a(ni, N) > 0 /\ VarOf(in_quorum_a(ni, N)) = ni
                 /\ in_quorum_b(ni, N) > 0 /\ VarOf(in_quorum_b(ni, N)) = N + ni
           /\ aux = (2 * N)..(solver.num_vars - 1)
           /\ solver.num_vars >= 2 * N
           /\ aux \cap read_vars(build.fbas) = {}
           /\ read_vars(build.fbas) \subseteq 0..(2 * N - 1)
           /\ BaseVarsUsed(solver, build.fbas) \subseteq 0..(2 * N - 1)

\* at least three vertices, and propositions were made for combinations
C12_Witness ==
    /\ pc = "ready"
    /\ node_count(build.fbas) >= 3
    /\ solver.num_vars >= 2 * node_count(build.fbas) + 4

-----------------------------------------------------------------------------
(* A caller that solves more than once, with an interrupt handle in other
   hands.  The callbacks object lives in the solver (Solver::new(.., cb));
   solve() itself only prints its flag (line 179) and hands control to
   solve_limited_th_full.  What that call does with the flag is the library's
   business: here a raised flag may or may not be seen by the call, and may
   or may not still be raised afterwards. *)

\* how many solve() calls the caller makes at most
MaxSolves == 2

CallInputs == JsonInputs

InitCalls ==
    /\ pc = "start"
    /\ input \in CallInputs
    /\ qsm = EmptyMap
    /\ build = NotBuilt
    /\ solver = NewSolver
    /\ status = UNKNOWN
    /\ split = <<<<>>, <<>>>>
    /\ stop = FALSE
    /\ returned = <<>>
    /\ AllocatorNew

\* Faulty variant of solve_return: the cached status is replaced only by a
\* verdict, so an UNKNOWN run leaves an older SAT in the cache
solve_return_sticky(old, result) ==
    [status |-> IF result.kind = "UNKNOWN" THEN old ELSE result,
     value |-> result]

\* lines 183-207: self.status = match result { .. }; self.status.clone()
\* whatever the call produced replaces the cached status, and the value
\* returned is a copy of the cache
solve_return(old, result) ==
    [status |-> result, value |-> result]

\* handle.interrupt_async() from another thread
InterruptAsync ==
    /\ pc \in {"ready", "solving", "solved"}
    /\ ~stop
    /\ stop' = TRUE
    /\ UNCHANGED <<pc, input, qsm, build, solver, status, split, returned, allocVars>>

\* solve() is entered: line 179 reads the flag, line 182 starts the search
SolveStart ==
    /\ pc \in {"ready", "solved"}
    /\ Len(returned) < MaxSolves
    /\ pc' = "solving"
    /\ stop' \in {stop, FALSE}
    /\ UNCHANGED <<input, qsm, build, solver, status, split, returned, allocVars>>

\* what solve_limited_th_full can hand back: a verdict, or Unknown when the
\* flag was raised
search_results(fbas, sv, flag) ==
    solve_results(fbas, sv) \cup (IF flag THEN {UNKNOWN} ELSE {})

\* solve() returns: lines 183-207
SolveReturn ==
    /\ pc = "solving"
    /\ \E r \in search_results(build.fbas, solver, stop) :
          /\ status' = solve_return(status, r).status
          /\ returned' = Append(returned, solve_return(status, r).value)
    /\ stop' \in {stop, FALSE}
    /\ pc' = "solved"
    /\ UNCHANGED <<input, qsm, build, solver, split, allocVars>>

\* get_potential_split() at any point after new()
ReadSplit ==
    /\ pc \in {"ready", "solved"}
    /\ split' = get_potential_split(build.fbas, status)
    /\ pc' = "done"
    /\ UNCHANGED <<input, qsm, build, solver, status, stop, returned, allocVars>>

NextCalls ==
    \/ FromJson
    \/ New
    \/ InterruptAsync
    \/ SolveStart
    \/ SolveReturn
    \/ ReadSplit

SpecCalls == InitCalls /\ [][NextCalls]_vars

\* the identifiers of a list of node indices, read off the sorted map: the
\* validator with index i is its (i+1)-th key
IdsAt(indices) == [i \in DOMAIN indices |-> qsm[indices[i] + 1].key]

\* what the most recent solve() returned, as identifier lists
LastSplit ==
    IF returned = <<>> \/ returned[Len(returned)].kind /= "SAT"
    THEN <<<<>>, <<>>>>
    ELSE <<IdsAt(returned[Len(returned)].quorum_a),
           IdsAt(returned[Len(returned)].quorum_b)>>

\* C13: get_potential_split() reflects the most recent solve() only: two
\* empty lists before the first solve and after a solve that returned UNSAT
\* or UNKNOWN (even when an earlier one returned SAT), and otherwise the
\* identifiers of exactly the witness the most recent solve returned.
C13_SplitOfLastSolve ==
    pc = "done" => split = LastSplit

\* a split read after a SAT solve followed by an interrupted one
C13_Witness ==
    /\ pc = "done"
    /\ Len(returned) = 2
    /\ returned[1].kind = "SAT"
    /\ returned[2].kind = "UNKNOWN"
    /\ split = <<<<>>, <<>>>>

-----------------------------------------------------------------------------
(* allocator.rs: the global allocator, used by every thread of the process.
   alloc is two atomic steps (the fetch_add, then the test of the value it
   returned with either the fetch_sub or the call of the system allocator);
   dealloc is one fetch_sub followed by the release of the block. *)

\* limit: 1024 * 1024 * 1024
LIMIT == 1024 * 1024 * 1024

\* a block of a third of the limit, so that four of them pass it
BigBlock == LIMIT \div 3

\* layout.size() of the requests the threads make
Sizes == {1, BigBlock}

\* blocks counted at any one time: held, requested or lost
MaxBlocks == 5

\* calls of System.alloc that fail
MaxSystemFailures == 1

RECURSIVE SumSeq(_)
SumSeq(s) == IF s = <<>> THEN 0 ELSE Head(s) + SumSeq(Tail(s))

\* bytes of the blocks that were handed out and not freed yet
LiveBytes == SumSeq(heap["t1"]) + SumSeq(heap["t2"])

\* what the thread itself holds
OwnBytes(t) == SumSeq(heap[t])

\* bytes of the requests between their fetch_add and their outcome
InFlightBytes == req["t1"].size + req["t2"].size

\* what the blocks and requests of all threads add up to, whatever the
\* counter says; a request keeps it in `total` beside the value it read
BytesCounted == LiveBytes + InFlightBytes + SumSeq(lost)

\* the bytes of the requests in progress that read a value within the limit
\* and so are on their way to a block
GrantedInFlight ==
    LET granted(t) == IF req[t].old > LIMIT THEN 0 ELSE req[t].size
    IN granted("t1") + granted("t2")

\* the bytes of the blocks handed out, or about to be; a request keeps it in
\* `held` beside the value it read
BytesHeld == LiveBytes + GrantedInFlight

\* the number of blocks the counter accounts for
BlocksCounted ==
    Len(heap["t1"]) + Len(heap["t2"]) + Len(lost)
        + Cardinality({t \in Threads : req[t] /= NoRequest})

AllocInit ==
    /\ pc = "start"
    /\ input = [source |-> "json", entries |-> <<>>]
    /\ qsm = EmptyMap
    /\ build = NotBuilt
    /\ solver = NewSolver
    /\ status = UNKNOWN
    /\ split = <<<<>>, <<>>>>
    /\ stop = FALSE
    /\ returned = <<>>
    /\ AllocatorNew

\* AtomicUsize::fetch_add returns the value the counter held before the
\* addition; alloc names it new_size
fetch_add_result(counter, size) == counter

\* Faulty variant of AllocFetchAdd: a counter kept per thread, so that the
\* value read is made of the thread's own blocks alone
AllocFetchAdd_thread_local(t, size) ==
    /\ req[t] = NoRequest
    /\ BlocksCounted < MaxBlocks
    /\ req' = [req EXCEPT ![t] = [size |-> size,
                                  old |-> OwnBytes(t),
                                  total |-> BytesCounted,
                                  held |-> BytesHeld]]
    /\ allocated' = allocated + size
    /\ UNCHANGED <<analyzerVars, heap, outcome, lost>>

\* alloc, line 11: self.allocated.fetch_add(layout.size(), SeqCst)
AllocFetchAdd(t, size) ==
    /\ req[t] = NoRequest
    /\ BlocksCounted < MaxBlocks
    /\ req' = [req EXCEPT ![t] = [size |-> size,
                                  old |-> fetch_add_result(allocated, size),
                                  total |-> BytesCounted,
                                  held |-> BytesHeld]]
    /\ allocated' = allocated + size
    /\ UNCHANGED <<analyzerVars, heap, outcome, lost>>

\* alloc, lines 12-14: new_size > self.limit, the request is taken back
\* and null returned
AllocRefuse(t) ==
    /\ req[t] /= NoRequest
    /\ req[t].old > LIMIT
    /\ allocated' = allocated - req[t].size
    /\ req' = [req EXCEPT ![t] = NoRequest]
    /\ outcome' = [outcome EXCEPT ![t] = "null"]
    /\ UNCHANGED <<analyzerVars, heap, lost>>

\* alloc, lines 15-16: System.alloc(layout) returns a block
AllocGrant(t) ==
    /\ req[t] /= NoRequest
    /\ ~(req[t].old > LIMIT)
    /\ heap' = [heap EXCEPT ![t] = Append(@, req[t].size)]
    /\ req' = [req EXCEPT ![t] = NoRequest]
    /\ outcome' = [outcome EXCEPT ![t] = "block"]
    /\ UNCHANGED <<analyzerVars, allocated, lost>>

\* alloc, lines 15-16: System.alloc(layout) itself returns null; the bytes
\* stay counted
AllocSystemFail(t) ==
    /\ req[t] /= NoRequest
    /\ ~(req[t].old > LIMIT)
    /\ Len(lost) < MaxSystemFailures
    /\ lost' = Append(lost, req[t].size)
    /\ req' = [req EXCEPT ![t] = NoRequest]
    /\ outcome' = [outcome EXCEPT ![t] = "null"]
    /\ UNCHANGED <<analyzerVars, allocated, heap>>

\* the sequence s without its i-th element
RemoveAt(s, i) == SubSeq(s, 1, i - 1) \o SubSeq(s, i + 1, Len(s))

\* dealloc, lines 20-23, of the i-th block the thread holds
Dealloc(t, i) ==
    /\ req[t] = NoRequest
    /\ i \in DOMAIN heap[t]
    /\ allocated' = allocated - heap[t][i]
    /\ heap' = [heap EXCEPT ![t] = RemoveAt(@, i)]
    /\ outcome' = [outcome EXCEPT ![t] = "freed"]
    /\ UNCHANGED <<analyzerVars, req, lost>>

AllocNext ==
    \/ \E t \in Threads, size \in Sizes : AllocFetchAdd(t, size)
    \/ \E t \in Threads : AllocRefuse(t)
    \/ \E t \in Threads : AllocGrant(t)
    \/ \E t \in Threads : AllocSystemFail(t)
    \/ \E t \in Threads, i \in 1..MaxBlocks : Dealloc(t, i)

SpecAlloc == AllocInit /\ [][AllocNext]_vars

\* no call is in progress
Quiescent == \A t \in Threads : req[t] = NoRequest

\* C17: the cap is enforced: after any sequence of completed alloc and
\* dealloc calls the counter of outstanding bytes does not exceed the limit.
C17_CapEnforced ==
    Quiescent => allocated <= LIMIT

\* every byte the counter holds is a block held, a request in progress or
\* a block the system allocator failed to deliver
CounterAccounts ==
    allocated = BytesCounted

\* C18 as claimed: analyzers on separate threads are independent: no state
\* written for one is read by another, so the value an allocation reads, on
\* which its success or failure is decided, holds no byte of another thread
\* (all lost blocks counted as the thread's own).
C18_Independent ==
    \A t \in Threads :
        req[t] /= NoRequest => req[t].old <= OwnBytes(t) + SumSeq(lost)

\* C18 as amended: the threads share the allocation counter: the value an
\* allocation reads from it, on which its success or failure is decided,
\* counts at least the blocks that all threads of the process hold at that
\* moment, not those of its own thread only.
C18_CounterCountsAllThreads ==
    [][\A t \in Threads :
          (req[t] = NoRequest /\ req'[t] /= NoRequest) =>
              req'[t].old >= LiveBytes]_vars

\* a thread that holds nothing has read, for its own request, the bytes of
\* the blocks the other thread holds, all within the limit
C18_Witness ==
    /\ req["t2"] /= NoRequest
    /\ req["t1"] = NoRequest
    /\ heap["t2"] = <<>>
    /\ lost = <<>>
    /\ OwnBytes("t1") > 0
    /\ req["t2"].old = OwnBytes("t1")
    /\ allocated <= LIMIT

-----------------------------------------------------------------------------
\* the front end has returned and its map registers exactly one validator
OneValidator == Returned /\ Len(qsm) = 1

\* C19 as claimed: with exactly one registered validator, whatever quorum
\* set it declares, the build succeeds and solve() returns UNSAT.
C19_SingleValidatorUnsat ==
    OneValidator =>
        /\ build.ok
        /\ Solved => status = UNSAT

\* C19 as amended: with exactly one registered validator the build succeeds
\* unless its quorum set nests deeper than QUORUM_SET_MAX_DEPTH levels, in
\* which case it fails; and after a successful build solve() returns UNSAT.
C19_SingleValidatorWithinDepth ==
    OneValidator =>
        /\ build.ok <=> Levels(qsm[1].value) <= QUORUM_SET_MAX_DEPTH
        /\ Solved => status = UNSAT

\* one validator that declares itself, solved
C19_Witness ==
    /\ OneValidator
    /\ Solved
    /\ status = UNSAT
    /\ build.fbas.validators = <<0>>
    /\ Len(build.fbas.edges) >= 2

-----------------------------------------------------------------------------
(* C20 *)

\* the binomial coefficient C(n, k)
RECURSIVE Binomial(_, _)
Binomial(n, k) ==
    IF k = 0 THEN 1
    ELSE IF n < k THEN 0
    ELSE Binomial(n - 1, k - 1) + Binomial(n - 1, k)

\* the successors of vertex v, as a set
SuccessorsOf(v) == {e[2] : e \in {ed \in Range(build.fbas.edges) : ed[1] = v}}

\* the threshold of vertex v: that of its quorum set, 1 for a validator
ThresholdOf(v) ==
    IF node_weight(build.fbas, v).kind = "Validator" THEN 1
    ELSE node_weight(build.fbas, v).qset.threshold

\* the number of size-t subsets of the successors of v
SlicesOf(v) == Binomial(Cardinality(SuccessorsOf(v)), ThresholdOf(v))

RECURSIVE SumSlices(_)
SumSlices(vs) ==
    IF vs = {} THEN 0
    ELSE LET v == CHOOSE x \in vs : TRUE
         IN SlicesOf(v) * (ThresholdOf(v) + 1) + 1 + SumSlices(vs \ {v})

RECURSIVE SumVariables(_)
SumVariables(vs) ==
    IF vs = {} THEN 0
    ELSE LET v == CHOOSE x \in vs : TRUE
         IN SlicesOf(v) + SumVariables(vs \ {v})

\* the positions of the "formula 3" clauses written for vertex v in quorum q:
\* those past the non-emptiness and disjointness clauses that open with the
\* negation of the vertex's literal
GroupOf(q, v) ==
    LET N == node_count(build.fbas)
        nqv == Neg(in_quorum(q, v, N))
    IN {i \in (3 + Len(build.fbas.validators))..Len(solver.clauses) :
            /\ solver.clauses[i] /= <<>>
            /\ solver.clauses[i][1] = nqv}

\* the propositions that occur in the clauses at the positions G
GroupVars(G) ==
    LET N == node_count(build.fbas)
    IN UNION {{VarOf(solver.clauses[i][k]) : k \in DOMAIN solver.clauses[i]} : i \in G}
         \ (0..(2 * N - 1))

\* the vertex whose literal in quorum q is l
VertexOf(q, l) ==
    IF q = "a" THEN VarOf(l) ELSE VarOf(l) - node_count(build.fbas)

\* the successors s for which G holds (not Q(v) or not x or Q(s))
SliceOf(q, G, x) ==
    {VertexOf(q, solver.clauses[i][3]) :
        i \in {j \in G : /\ Len(solver.clauses[j]) = 3
                         /\ solver.clauses[j][2] = Neg(PosLit(x))
                         /\ solver.clauses[j][3] > 0}}

\* the clauses written for vertex v in quorum q, at the positions G with the
\* propositions X, are exactly those of the claim
GroupAsClaimed(q, v, G, X) ==
    LET N == node_count(build.fbas)
        cl == solver.clauses
        t == ThresholdOf(v)
        m == SlicesOf(v)
        nqv == Neg(in_quorum(q, v, N))
        succ == SuccessorsOf(v)
        slice == [x \in X |-> SliceOf(q, G, x)]
        closing == {i \in G : /\ Len(cl[i]) = m + 1
                              /\ Range(cl[i]) = {nqv} \cup {PosLit(x) : x \in X}}
    IN /\ Cardinality(X) = m
       /\ Cardinality(G) = m * (t + 1) + 1
       /\ \A x \in X :
            /\ slice[x] \subseteq succ
            /\ Cardinality(slice[x]) = t
            /\ Cardinality({i \in G : Len(cl[i]) = 3 /\ cl[i][2] = Neg(PosLit(x))}) = t
            /\ \E i \in G :
                 /\ Len(cl[i]) = t + 2
                 /\ cl[i][2] = PosLit(x)
                 /\ Range(cl[i]) = {nqv, PosLit(x)}
                                     \cup {Neg(in_quorum(q, s, N)) : s \in slice[x]}
       /\ \A x \in X, y \in X : slice[x] = slice[y] => x = y
       /\ closing /= {}
       /\ t = 0 => Cardinality(closing) = 2

\* C20: for every vertex with d successors and threshold t, and for each of
\* the two quorums, construct_formula makes C(d,t) propositions, one per
\* size-t subset of the successors, and writes for each the t implication
\* clauses and the one defining clause, and one closing clause for the
\* vertex; every proposition belongs to one vertex and quorum; with the two
\* non-emptiness clauses and one disjointness clause per validator the
\* solver is handed 2 + |V| + 2 * sum (C(d,t) * (t+1) + 1) clauses.
C20_ClausesAsDerived ==
    pc = "ready" =>
        LET N == node_count(build.fbas)
            V == build.fbas.validators
            cl == solver.clauses
            groups == {"a", "b"} \X node_indices(build.fbas)
            pos == [g \in groups |-> GroupOf(g[1], g[2])]
            props == [g \in groups |-> GroupVars(pos[g])]
        IN /\ Len(cl) = 2 + Len(V) + 2 * SumSlices(node_indices(build.fbas))
           /\ solver.num_vars = 2 * N + 2 * SumVariables(node_indices(build.fbas))
           /\ Range(cl[1]) = {in_quorum_a(V[i], N) : i \in DOMAIN V}
           /\ Range(cl[2]) = {in_quorum_b(V[i], N) : i \in DOMAIN V}
           /\ \A i \in DOMAIN V :
                Range(cl[2 + i]) = {Neg(in_quorum_a(V[i], N)), Neg(in_quorum_b(V[i], N))}
           /\ \A g \in groups : GroupAsClaimed(g[1], g[2], pos[g], props[g])
           /\ UNION {props[g] : g \in groups} = (2 * N)..(solver.num_vars - 1)

\* a constructed analyzer with a vertex of three successors and threshold
\* two: three propositions per quorum for that vertex
C20_Witness ==
    /\ pc = "ready"
    /\ \E v \in node_indices(build.fbas) :
          /\ Cardinality(SuccessorsOf(v)) = 3
          /\ ThresholdOf(v) = 2
          /\ Cardinality(GroupVars(GroupOf("a", v))) = 3
          /\ Cardinality(GroupOf("b", v)) = 10

-----------------------------------------------------------------------------
(* C21 *)

\* v1 and v2 both declare {t=1, [v1, v2]}
SharedMap ==
    <<[key |-> "v1", value |-> IQS(1, <<"v1", "v2">>, <<>>)],
      [key |-> "v2", value |-> IQS(1, <<"v1", "v2">>, <<>>)]>>

\* the QSet vertices of the built graph
QSetVertices ==
    {ni \in node_indices(build.fbas) : node_weight(build.fbas, ni).kind = "QSet"}

\* the variables of the literals of a clause
ClauseVars(c) == {VarOf(c[k]) : k \in DOMAIN c}

\* C21: disjointness is imposed on Validator vertices only: no clause holds
\* both the A- and the B-literal of a QSet vertex, so a QSet vertex interned
\* once and shared by validators of both quorums can be in A and in B in one
\* model; when v1 and v2 both declare {t=1, [v1, v2]} they share one QSet
\* vertex, that vertex is in both quorums in a model, and solve() returns
\* SAT with one validator in each list.
C21_DisjointnessOnValidatorsOnly ==
    LET N == node_count(build.fbas)
    IN /\ Constructed =>
            \A q \in QSetVertices : \A i \in DOMAIN solver.clauses :
                ~({VarOf(in_quorum_a(q, N)), VarOf(in_quorum_b(q, N))}
                      \subseteq ClauseVars(solver.clauses[i]))
       /\ (Constructed /\ qsm = SharedMap) =>
            /\ Cardinality(QSetVertices) = 1
            /\ \A q \in QSetVertices :
                 [x \in {VarOf(in_quorum_a(q, N)), VarOf(in_quorum_b(q, N))} |-> TRUE]
                     \in SolverModels(solver, {VarOf(in_quorum_a(q, N)),
                                               VarOf(in_quorum_b(q, N))})
       /\ (Solved /\ qsm = SharedMap) =>
            /\ status.kind = "SAT"
            /\ Len(status.quorum_a) = 1
            /\ Len(status.quorum_b) = 1
            /\ status.quorum_a /= status.quorum_b

\* the analyzer of that FBAS has been solved and found a split
C21_Witness == pc = "solved" /\ qsm = SharedMap /\ status = SAT(<<0>>, <<1>>)

-----------------------------------------------------------------------------
(* C22 *)

\* the vertices that ask for more successors than they have
Starved == {v \in node_indices(build.fbas) :
                ThresholdOf(v) > Cardinality(SuccessorsOf(v))}

\* the validators whose declared quorum set is such a vertex
DeclareStarved ==
    {w \in Range(build.fbas.validators) : SuccessorsOf(w) \cap Starved /= {}}

\* some model of the clauses makes the literal l true
CanHold(l) ==
    [x \in {VarOf(l)} |-> TRUE] \in SolverModels(solver, {VarOf(l)})

\* C22: a vertex whose threshold exceeds its number of successors is false
\* for both quorums in every model of the clauses, and so is every validator
\* that declares such a quorum set, which is therefore in neither list of a
\* SAT status; the clauses written for a vertex of threshold 0 name none of
\* its successors.
C22_StarvedVertexFalse ==
    LET N == node_count(build.fbas)
    IN /\ pc = "ready" =>
            /\ \A v \in Starved \cup DeclareStarved :
                  ~CanHold(in_quorum_a(v, N)) /\ ~CanHold(in_quorum_b(v, N))
            /\ \A v \in node_indices(build.fbas) : \A q \in {"a", "b"} :
                  ThresholdOf(v) = 0 =>
                     /\ Cardinality(GroupOf(q, v)) = 2
                     /\ \A i \in GroupOf(q, v) :
                           ClauseVars(solver.clauses[i]) \cap (0..(2 * N - 1))
                              = {VarOf(in_quorum(q, v, N))}
       /\ (Solved /\ status.kind = "SAT") =>
            DeclareStarved \cap (Range(status.quorum_a) \cup Range(status.quorum_b)) = {}

\* a split was found beside a validator whose quorum set asks for more
\* members than it has
C22_Witness ==
    /\ pc = "solved"
    /\ status.kind = "SAT"
    /\ DeclareStarved /= {}

-----------------------------------------------------------------------------
(* C23 *)

\* the edges from a QSet vertex to a QSet vertex
InnerEdges(fbas) ==
    {e \in EdgeSet(fbas) : e[1] \in QSetNodes(fbas) /\ e[2] \in QSetNodes(fbas)}

\* C23: in every built graph each inner-QSet successor of a QSet vertex has
\* a strictly smaller index than that vertex, every Validator vertex has a
\* smaller index than every QSet vertex, the validators list is 0, 1, ..,
\* |V|-1 in that order, and the QSet-to-QSet edges form no cycle.
C23_IndexOrder ==
    Built =>
        LET fbas == build.fbas
        IN /\ \A e \in InnerEdges(fbas) : e[2] < e[1]
           /\ \A v \in ValidatorNodes(fbas) : \A q \in QSetNodes(fbas) : v < q
           /\ fbas.validators = [i \in 1..Cardinality(ValidatorNodes(fbas)) |-> i - 1]
           /\ NoCycle(QSetNodes(fbas), InnerEdges(fbas))

\* a built graph of two validators or more in which a QSet vertex has two
\* inner-QSet successors
C23_Witness ==
    /\ pc = "built"
    /\ Len(build.fbas.validators) >= 2
    /\ \E e \in InnerEdges(build.fbas), f \in InnerEdges(build.fbas) :
          e[1] = f[1] /\ e[2] /= f[2]

-----------------------------------------------------------------------------
(* C24 *)

\* C24: under every interleaving of alloc and dealloc calls, the system
\* allocator never failing, the counter never underflows and holds the bytes
\* of the blocks handed out and of the requests in progress, so that it
\* equals the bytes of the live blocks once all calls have completed and a
\* refused request leaves it as it was; and a request is refused only when
\* the bytes of the blocks handed out (or about to be) exceed the limit, not
\* because of a request of another thread that is itself about to be
\* refused.
C24_ExactAccounting ==
    lost = <<>> =>
        /\ allocated >= 0
        /\ allocated = LiveBytes + InFlightBytes
        /\ Quiescent => allocated = LiveBytes
        /\ \A t \in Threads :
              (req[t] /= NoRequest /\ req[t].old > LIMIT) => req[t].held > LIMIT

=============================================================================
